---- MODULE Spec2Model ----
(***************************************************************************)
(* A model of search_engine.py: the Trie term dictionary and the           *)
(* SearchEngine (tokenizer, ingestion, index build, conjunctive search and *)
(* ranking).  Text is modelled as TLA+ strings, i.e. sequences of          *)
(* characters; a character is a string of length one.                      *)
(***************************************************************************)
EXTENDS Integers, Sequences, FiniteSets

(***************************************************************************)
(* Python str primitives used by the engine.                               *)
(***************************************************************************)

\* The printable ASCII characters in code point order: 32 (space) to 95,
\* and 97 to 126.  The grave accent (96) cannot be written in a TLA+ string
\* and is left out of the model's character set.
PrintableLow ==
  " !\"#$%&'()*+,-./0123456789:;<=>?@ABCDEFGHIJKLMNOPQRSTUVWXYZ[\\]^_"

PrintableHigh == "abcdefghijklmnopqrstuvwxyz{|}~"

CharAt(s, i) == SubSeq(s, i, i)

CharsOf(s) == { CharAt(s, i) : i \in 1..Len(s) }

\* ord(c) for the characters of the model: ASCII code points.
OrdTable ==
  [c \in CharsOf(PrintableLow) \cup CharsOf(PrintableHigh) \cup {"\t", "\n", "\f", "\r"} |->
     IF c = "\t" THEN 9
     ELSE IF c = "\n" THEN 10
     ELSE IF c = "\f" THEN 12
     ELSE IF c = "\r" THEN 13
     ELSE IF c \in CharsOf(PrintableLow)
          THEN 31 + (CHOOSE i \in 1..Len(PrintableLow) : CharAt(PrintableLow, i) = c)
          ELSE 96 + (CHOOSE i \in 1..Len(PrintableHigh) : CharAt(PrintableHigh, i) = c)]

ord(c) == OrdTable[c]

chr(n) == IF n <= 95 THEN CharAt(PrintableLow, n - 31) ELSE CharAt(PrintableHigh, n - 96)

\* str.lower(), character by character: 'A'..'Z' (65..90) map to 'a'..'z'.
lower_char(c) == IF ord(c) >= 65 /\ ord(c) <= 90 THEN chr(ord(c) + 32) ELSE c

RECURSIVE lower(_)
lower(s) == IF s = "" THEN "" ELSE lower_char(Head(s)) \o lower(Tail(s))

\* string.punctuation (without the grave accent, see PrintableLow)
punctuation == CharsOf("!\"#$%&'()*+,-./:;<=>?@[\\]^_{|}~")

\* The whitespace str.split() and str.strip() separate on.
whitespace == {" ", "\t", "\n", "\r", "\f"}

\* text.translate(str.maketrans('', '', string.punctuation)): every
\* punctuation character is deleted, nothing is put in its place.
RECURSIVE translate(_)
translate(s) ==
  IF s = "" THEN ""
  ELSE IF Head(s) \in punctuation THEN translate(Tail(s))
  ELSE Head(s) \o translate(Tail(s))

\* str.split(): the maximal runs of non-whitespace characters, in order.
\* cur is the run being read.
RECURSIVE split_from(_, _)
split_from(s, cur) ==
  IF s = "" THEN (IF cur = "" THEN <<>> ELSE <<cur>>)
  ELSE IF Head(s) \in whitespace
       THEN (IF cur = "" THEN <<>> ELSE <<cur>>) \o split_from(Tail(s), "")
       ELSE split_from(Tail(s), cur \o Head(s))

split(s) == split_from(s, "")

\* str.strip(): leading and trailing whitespace removed.
RECURSIVE lstrip(_)
lstrip(s) == IF s # "" /\ Head(s) \in whitespace THEN lstrip(Tail(s)) ELSE s

RECURSIVE rstrip(_)
rstrip(s) ==
  IF s # "" /\ CharAt(s, Len(s)) \in whitespace
  THEN rstrip(SubSeq(s, 1, Len(s) - 1))
  ELSE s

strip(s) == rstrip(lstrip(s))

\* `sub in s` for strings: sub occurs as a contiguous substring of s.
contains(s, sub) ==
  \E i \in 1..(Len(s) - Len(sub) + 1) : SubSeq(s, i, i + Len(sub) - 1) = sub

\* s.endswith(suffix)
endswith(s, suffix) ==
  Len(s) >= Len(suffix) /\ SubSeq(s, Len(s) - Len(suffix) + 1, Len(s)) = suffix

\* s.split('/')[-1]: what follows the last '/', the whole string if none.
RECURSIVE last_segment(_)
last_segment(s) ==
  IF ~contains(s, "/") THEN s
  ELSE last_segment(Tail(s))

\* Python's string order: lexicographic by code point, a proper prefix first.
RECURSIVE str_less(_, _)
str_less(a, b) ==
  IF b = "" THEN FALSE
  ELSE IF a = "" THEN TRUE
  ELSE IF Head(a) = Head(b) THEN str_less(Tail(a), Tail(b))
  ELSE ord(Head(a)) < ord(Head(b))

str_leq(a, b) == a = b \/ str_less(a, b)

(***************************************************************************)
(* SearchEngine.load_stop_words and SearchEngine.tokenize                   *)
(***************************************************************************)

load_stop_words ==
  { "a", "an", "the", "and", "or", "but", "is", "are", "was", "were",
    "in", "on", "at", "to", "for", "with", "by", "about", "against",
    "between", "into", "through", "during", "before", "after", "above",
    "below", "from", "up", "down", "of", "off", "over", "under", "again",
    "further", "then", "once", "here", "there", "when", "where", "why",
    "how", "all", "any", "both", "each", "few", "more", "most", "other",
    "some", "such", "no", "nor", "not", "only", "own", "same", "so",
    "than", "too", "very", "s", "t", "can", "will", "just", "don",
    "should", "now", "he", "she", "it", "they", "we", "you", "i", "me", "my" }

stop_words == load_stop_words

\* [w for w in ws if keep(w)], order and repetitions preserved.
RECURSIVE keep_terms(_)
keep_terms(ws) ==
  IF ws = <<>> THEN <<>>
  ELSE IF Head(ws) \notin stop_words /\ Len(Head(ws)) > 1
       THEN <<Head(ws)>> \o keep_terms(Tail(ws))
       ELSE keep_terms(Tail(ws))

tokenize(text) == keep_terms(split(translate(lower(text))))

(***************************************************************************)
(* Python containers.  A dict is a function on its keys; a list is a       *)
(* sequence (Python index i is position i + 1).                            *)
(***************************************************************************)

EmptyDict == [k \in {} |-> 0]

Put(d, k, v) == [x \in DOMAIN d \cup {k} |-> IF x = k THEN v ELSE d[x]]

\* sorted(xs) for a list of strings: insertion sort, repetitions kept.
RECURSIVE insert_sorted(_, _)
insert_sorted(xs, x) ==
  IF xs = <<>> THEN <<x>>
  ELSE IF str_less(x, Head(xs)) THEN <<x>> \o xs
  ELSE <<Head(xs)>> \o insert_sorted(Tail(xs), x)

RECURSIVE sorted_from(_, _)
sorted_from(xs, acc) ==
  IF xs = <<>> THEN acc ELSE sorted_from(Tail(xs), insert_sorted(acc, Head(xs)))

sorted(xs) == sorted_from(xs, <<>>)

\* sorted(d.keys()): the keys of a dict in ascending order.
RECURSIVE sorted_keys(_)
sorted_keys(S) ==
  IF S = {} THEN <<>>
  ELSE LET m == CHOOSE x \in S : \A y \in S : str_leq(x, y)
       IN  <<m>> \o sorted_keys(S \ {m})

Range(xs) == { xs[i] : i \in DOMAIN xs }

\* The number of positions of xs holding x.
Count(xs, x) == Cardinality({ i \in DOMAIN xs : xs[i] = x })

\* Every ordering of a finite set as a list: what list(a_set) can return.
Orderings(S) ==
  { xs \in [1..Cardinality(S) -> S] : \A i, j \in DOMAIN xs : i # j => xs[i] # xs[j] }

\* The keys of a dict filled by iterating xs: first occurrences, in order.
RECURSIVE first_occurrences(_, _)
first_occurrences(xs, seen) ==
  IF xs = <<>> THEN <<>>
  ELSE IF Head(xs) \in seen THEN first_occurrences(Tail(xs), seen)
  ELSE <<Head(xs)>> \o first_occurrences(Tail(xs), seen \cup {Head(xs)})

(***************************************************************************)
(* Trie.  A node is named by the path of characters from the root ("");    *)
(* node.children[c] of node p is node p \o c, present iff it is in the     *)
(* domain.  The domain is closed under prefixes by construction.           *)
(***************************************************************************)

NOT_FOUND == -1

TrieNode == [is_end_of_word |-> FALSE, occurrence_list_index |-> NOT_FOUND]

NewTrie == [p \in {""} |-> TrieNode]

\* insert marking every node on the way as the end of a word.
TrieInsertMarkingPath(t, word, occurrence_list_index) ==
  LET path == { SubSeq(word, 1, k) : k \in 0..Len(word) }
  IN  [p \in DOMAIN t \cup path |->
         IF p \in path /\ p # ""
         THEN [is_end_of_word |-> TRUE, occurrence_list_index |-> occurrence_list_index]
         ELSE IF p \in DOMAIN t THEN t[p] ELSE TrieNode]

\* Trie.insert(word, occurrence_list_index)
TrieInsert(t, word, occurrence_list_index) ==
  LET path == { SubSeq(word, 1, k) : k \in 0..Len(word) }
  IN  [p \in DOMAIN t \cup path |->
         IF p = word
         THEN [is_end_of_word |-> TRUE, occurrence_list_index |-> occurrence_list_index]
         ELSE IF p \in DOMAIN t THEN t[p] ELSE TrieNode]

\* Trie.search(word): walk the characters from the root; k characters read.
RECURSIVE trie_walk(_, _, _)
trie_walk(t, word, k) ==
  IF k = Len(word)
  THEN (IF t[word].is_end_of_word THEN t[word].occurrence_list_index ELSE NOT_FOUND)
  ELSE IF SubSeq(word, 1, k + 1) \notin DOMAIN t THEN NOT_FOUND
  ELSE trie_walk(t, word, k + 1)

TrieSearch(t, word) == trie_walk(t, word, 0)

(***************************************************************************)
(* SearchEngine.  An engine value e is the record of the instance's        *)
(* fields; the operators below are the methods, e the instance they run on *)
(* and the engine they return the instance after the call.                 *)
(***************************************************************************)

\* SearchEngine.__init__
NewEngine ==
  [ pages            |-> EmptyDict,
    page_titles      |-> EmptyDict,
    inverted_index   |-> EmptyDict,
    trie             |-> NewTrie,
    occurrence_lists |-> <<>>,
    word_frequencies |-> EmptyDict,
    stats            |-> [total_pages |-> 0, total_words |-> 0, unique_words |-> 0] ]

\* Counter(words)
Counter(words) == [w \in Range(words) |-> Count(words, w)]

\* What BeautifulSoup hands process_page for a page: whether the page has a
\* <title> tag, the tag's text, and soup.get_text().
Page(has_title, title, text) == [has_title |-> has_title, title |-> title, text |-> text]

\* process_page indexing only the words longer than two characters.
process_page_longer_words(e, url, content) ==
  LET title       == IF content.has_title THEN strip(content.title) ELSE last_segment(url)
      words       == tokenize(content.text)
      indexed     == { w \in Range(words) : w \notin stop_words /\ Len(w) > 2 }
      ii          == e.inverted_index
  IN  [ e EXCEPT
          !.page_titles      = Put(@, url, title),
          !.word_frequencies = Put(@, url, Counter(words)),
          !.inverted_index   =
             [w \in DOMAIN ii \cup indexed |->
                IF w \in indexed
                THEN Append(IF w \in DOMAIN ii THEN ii[w] ELSE <<>>, url)
                ELSE ii[w]],
          !.stats.total_words = @ + Cardinality(indexed) ]

\* SearchEngine.process_page(url, content)
process_page(e, url, content) ==
  LET title       == IF content.has_title THEN strip(content.title) ELSE last_segment(url)
      words       == tokenize(content.text)
      word_counts == Counter(words)
      indexed     == { w \in Range(words) : w \notin stop_words /\ Len(w) > 1 }
      ii          == e.inverted_index
  IN  [ e EXCEPT
          !.page_titles      = Put(@, url, title),
          !.word_frequencies = Put(@, url, word_counts),
          !.inverted_index   =
             [w \in DOMAIN ii \cup indexed |->
                IF w \in indexed
                THEN Append(IF w \in DOMAIN ii THEN ii[w] ELSE <<>>, url)
                ELSE ii[w]],
          !.stats.total_words = @ + Cardinality(indexed) ]

\* The loop of build_index: sorted_words[i + 1 ..] are still to be added.
RECURSIVE build_loop(_, _, _)
build_loop(e, sorted_words, i) ==
  IF i >= Len(sorted_words) THEN e
  ELSE LET word            == sorted_words[i + 1]
           occurrence_list == sorted(e.inverted_index[word])
       IN  build_loop(
             [ e EXCEPT !.occurrence_lists = Append(@, occurrence_list),
                        !.trie             = TrieInsert(@, word, i) ],
             sorted_words, i + 1)

\* SearchEngine.build_index()
build_index(e) == build_loop(e, sorted_keys(DOMAIN e.inverted_index), 0)

\* os.path.join(directory, filename)
path_join(directory, filename) ==
  IF filename # "" /\ Head(filename) = "/" THEN filename
  ELSE IF directory = "" \/ endswith(directory, "/") THEN directory \o filename
  ELSE directory \o "/" \o filename

FileUrl(directory, filename) == "file://" \o path_join(directory, filename)

\* A directory on disk: its path and os.listdir's answer, a list of files,
\* each with its name, whether open/read succeeds, and the page read.
File(filename, readable, content) ==
  [filename |-> filename, readable |-> readable, content |-> content]

\* The loop of crawl_directory: listing[i ..] are still to be read.  A read
\* that fails raises: the loop stops and the engine is as the loop left it.
RECURSIVE crawl_loop(_, _, _)
crawl_loop(e, directory, i) ==
  IF i > Len(directory.listing) THEN [engine |-> e, raised |-> FALSE]
  ELSE LET f   == directory.listing[i]
           url == FileUrl(directory.path, f.filename)
       IN  IF ~endswith(f.filename, ".html") THEN crawl_loop(e, directory, i + 1)
           ELSE IF ~f.readable THEN [engine |-> e, raised |-> TRUE]
           ELSE crawl_loop(
                  [ process_page([e EXCEPT !.pages = Put(@, url, f.content)], url, f.content)
                      EXCEPT !.stats.total_pages = @ + 1 ],
                  directory, i + 1)

\* crawl_directory building the index of what it has read when a read
\* fails (the build in a finally clause).
crawl_directory_always_building(e, directory) ==
  LET crawled == crawl_loop(e, directory, 1)
      built   == build_index(crawled.engine)
  IN  [ engine |-> [built EXCEPT !.stats.unique_words = Len(built.occurrence_lists)],
        raised |-> crawled.raised ]

\* SearchEngine.crawl_directory(directory): the engine after the call and
\* whether the call raised.
crawl_directory(e, directory) ==
  LET crawled == crawl_loop(e, directory, 1)
      built   == build_index(crawled.engine)
  IN  IF crawled.raised THEN crawled
      ELSE [ engine |-> [built EXCEPT !.stats.unique_words = Len(built.occurrence_lists)],
             raised |-> FALSE ]

\* [term for term in self.tokenize(query) if term not in self.stop_words]
RECURSIVE not_stop_words(_)
not_stop_words(terms) ==
  IF terms = <<>> THEN <<>>
  ELSE IF Head(terms) \notin stop_words
       THEN <<Head(terms)>> \o not_stop_words(Tail(terms))
       ELSE not_stop_words(Tail(terms))

QueryTerms(query) == not_stop_words(tokenize(query))

\* search with a term the dictionary does not know skipped instead of
\* ending the search: the other terms' lists are intersected.
search_skipping_unknown(e, query) ==
  LET query_terms == QueryTerms(query)
      known       == { k \in DOMAIN query_terms :
                         TrieSearch(e.trie, query_terms[k]) # NOT_FOUND }
      list(k)     == e.occurrence_lists[TrieSearch(e.trie, query_terms[k]) + 1]
  IN  IF known = {} THEN { <<>> }
      ELSE Orderings({ url \in UNION { Range(list(k)) : k \in known } :
                         \A k \in known : url \in Range(list(k)) })

\* search with the lists united instead of intersected.
search_union(e, query) ==
  LET query_terms == QueryTerms(query)
      list(k)     == e.occurrence_lists[TrieSearch(e.trie, query_terms[k]) + 1]
  IN  IF query_terms = <<>> THEN { <<>> }
      ELSE IF \E k \in DOMAIN query_terms :
                TrieSearch(e.trie, query_terms[k]) = NOT_FOUND THEN { <<>> }
      ELSE Orderings(UNION { Range(list(k)) : k \in DOMAIN query_terms })

\* SearchEngine.search(query): the lists the call can return.  The order of
\* list(intersection) is the set's iteration order, which Python leaves open.
search(e, query) ==
  LET query_terms == QueryTerms(query)
      index_of(k) == TrieSearch(e.trie, query_terms[k])
      lists       == [k \in DOMAIN query_terms |-> e.occurrence_lists[index_of(k) + 1]]
  IN  IF query_terms = <<>> THEN { <<>> }
      ELSE IF \E k \in DOMAIN query_terms : index_of(k) = NOT_FOUND THEN { <<>> }
      ELSE IF Len(query_terms) = 1 THEN { lists[1] }
      ELSE Orderings({ url \in Range(lists[1]) :
                         \A k \in DOMAIN lists : url \in Range(lists[k]) })

\* The title bonus given only when the term is a whole word of the title.
title_bonus_whole_word(e, url, term) ==
  IF url \in DOMAIN e.page_titles /\ term \in Range(split(lower(e.page_titles[url])))
  THEN 2 ELSE 0

\* The bonus for a term in the title: `term in self.page_titles[url].lower()`.
title_bonus(e, url, term) ==
  IF url \in DOMAIN e.page_titles /\ contains(lower(e.page_titles[url]), term)
  THEN 2 ELSE 0

\* The score rank_results gives url: the inner loop over query_terms[k ..].
RECURSIVE score_loop(_, _, _, _)
score_loop(e, query_terms, url, k) ==
  IF k > Len(query_terms) THEN 0
  ELSE LET term             == query_terms[k]
           page_word_counts == e.word_frequencies[url]
           term_freq        == IF term \in DOMAIN page_word_counts
                               THEN page_word_counts[term] ELSE 0
       IN  term_freq + title_bonus(e, url, term) + score_loop(e, query_terms, url, k + 1)

Score(e, query, url) == score_loop(e, QueryTerms(query), url, 1)

\* The sort without reverse=True: ascending by score.
RECURSIVE insert_by_score_ascending(_, _, _, _)
insert_by_score_ascending(e, query, xs, url) ==
  IF xs = <<>> THEN <<url>>
  ELSE IF Score(e, query, Head(xs)) > Score(e, query, url) THEN <<url>> \o xs
  ELSE <<Head(xs)>> \o insert_by_score_ascending(e, query, Tail(xs), url)

\* sorted(scores.items(), key=score, reverse=True): a stable sort, so urls
\* of equal score keep the order they have in the dict.
RECURSIVE insert_by_score(_, _, _, _)
insert_by_score(e, query, xs, url) ==
  IF xs = <<>> THEN <<url>>
  ELSE IF Score(e, query, Head(xs)) < Score(e, query, url) THEN <<url>> \o xs
  ELSE <<Head(xs)>> \o insert_by_score(e, query, Tail(xs), url)

RECURSIVE sort_by_score(_, _, _, _)
sort_by_score(e, query, xs, acc) ==
  IF xs = <<>> THEN acc
  ELSE sort_by_score(e, query, Tail(xs), insert_by_score(e, query, acc, Head(xs)))

\* SearchEngine.rank_results(query, results), for results the engine knows
\* (a url without a frequency table raises KeyError).
rank_results(e, query, results) ==
  sort_by_score(e, query, first_occurrences(results, {}), <<>>)

\* SearchEngine.query(query_string): the lists the call can return.
query(e, query_string) ==
  { IF results = <<>> THEN <<>> ELSE rank_results(e, query_string, results) :
      results \in search(e, query_string) }

(***************************************************************************)
(* Bounds and inputs.                                                      *)
(***************************************************************************)

\* The most files os.listdir returns for a crawled directory.
MaxFiles == 2

\* The most urls in a results list handed to rank_results.
MaxResults == 2

\* The most calls of crawl_directory, process_page and build_index made on
\* one engine when the methods are called freely.
MaxCalls == 2

\* The pages of the files on disk.
Pages ==
  { Page(TRUE,  "Dog Tips", "Dog. dog do"),
    Page(FALSE, "",         "The cat's DO"),
    Page(TRUE,  " Cats ",   "a cat, the dog"),
    Page(TRUE,  "",         "") }

NoPage == Page(FALSE, "", "")

HtmlNames == { "a.html", "dog.html" }

OtherNames == { "n.txt" }

\* A file of a directory: an html file with a page, an html file that
\* cannot be read, or a file of another kind.
Files ==
  { File(fn, TRUE, c) : fn \in HtmlNames, c \in Pages }
    \cup { File(fn, FALSE, NoPage) : fn \in HtmlNames }
    \cup { File(fn, TRUE, NoPage) : fn \in OtherNames }

\* os.listdir: at most MaxFiles files, no name twice, in any order.
Listings ==
  UNION { { l \in [1..n -> Files] :
              \A i, j \in 1..n : i # j => l[i].filename # l[j].filename } :
          n \in 0..MaxFiles }

\* The two documents of the specification's concrete scenario, with
\* get_text() giving the body text alone, or the title text and the body.
D1 == "file://p/d1.html"

D2 == "file://p/d2.html"

ScenarioFiles(title_in_text) ==
  << File("d1.html", TRUE,
          Page(TRUE, "Cats and Dogs",
               (IF title_in_text THEN "Cats and Dogs\n" ELSE "")
                 \o "the cat sat on the mat with a dog")),
     File("d2.html", TRUE,
          Page(TRUE, "Dog Training",
               (IF title_in_text THEN "Dog Training\n" ELSE "")
                 \o "dogs are great dogs dogs")) >>

ScenarioListings ==
  UNION { { ScenarioFiles(b), <<ScenarioFiles(b)[2], ScenarioFiles(b)[1]>> } :
          b \in BOOLEAN }

Directories == { [path |-> "p", listing |-> l] : l \in Listings \cup ScenarioListings }

\* Query strings: a few words, and every two of them joined by a space.
BaseQueries == { "", "dog", "D-o", "the", "cat", "elephant" }

Queries == BaseQueries \cup { t1 \o " " \o t2 : t1, t2 \in BaseQueries }

\* The urls of the files above.
Urls == { FileUrl("p", fn) : fn \in HtmlNames } \cup { D1, D2 }

\* The results lists rank_results is called with.
ResultLists(urls) == UNION { [1..n -> urls] : n \in 0..MaxResults }

(***************************************************************************)
(* State: the fields of one SearchEngine, and what its caller sees of the  *)
(* last call.                                                              *)
(***************************************************************************)
VARIABLES
  pages,             \* self.pages
  page_titles,       \* self.page_titles
  inverted_index,    \* self.inverted_index
  trie,              \* self.trie
  occurrence_lists,  \* self.occurrence_lists
  word_frequencies,  \* self.word_frequencies
  stats,             \* self.stats
  op,                \* the method called last
  arg_query,         \* its query argument
  arg_results,       \* its results argument
  ret,               \* the list it returned
  raised,            \* whether the last indexing call raised
  calls              \* the indexing calls made so far

engine_vars ==
  <<pages, page_titles, inverted_index, trie, occurrence_lists, word_frequencies, stats>>

vars == <<engine_vars, op, arg_query, arg_results, ret, raised, calls>>

\* The engine as a value.
Self ==
  [ pages            |-> pages,
    page_titles      |-> page_titles,
    inverted_index   |-> inverted_index,
    trie             |-> trie,
    occurrence_lists |-> occurrence_lists,
    word_frequencies |-> word_frequencies,
    stats            |-> stats ]

\* The engine becomes e.
Becomes(e) ==
  /\ pages' = e.pages
  /\ page_titles' = e.page_titles
  /\ inverted_index' = e.inverted_index
  /\ trie' = e.trie
  /\ occurrence_lists' = e.occurrence_lists
  /\ word_frequencies' = e.word_frequencies
  /\ stats' = e.stats

QueryOps == { "search", "rank_results", "query" }

\* The caller holds no result it has yet to display: it calls one method at
\* a time and displays what a query-phase call returned before the next call.
Idle == op \notin QueryOps

Init ==
  /\ pages = NewEngine.pages
  /\ page_titles = NewEngine.page_titles
  /\ inverted_index = NewEngine.inverted_index
  /\ trie = NewEngine.trie
  /\ occurrence_lists = NewEngine.occurrence_lists
  /\ word_frequencies = NewEngine.word_frequencies
  /\ stats = NewEngine.stats
  /\ op = "init"
  /\ arg_query = ""
  /\ arg_results = <<>>
  /\ ret = <<>>
  /\ raised = FALSE
  /\ calls = 0

\* An indexing call, made when the caller holds no result to display; it
\* returns nothing.
Indexed(name, did_raise) ==
  /\ Idle
  /\ op' = name
  /\ arg_query' = ""
  /\ arg_results' = <<>>
  /\ ret' = <<>>
  /\ raised' = did_raise
  /\ calls' = calls + 1

\* engine.crawl_directory(directory)
CrawlDirectory(directory) ==
  /\ calls < MaxCalls
  /\ LET r == crawl_directory(Self, directory)
     IN  /\ Becomes(r.engine)
         /\ Indexed("crawl_directory", r.raised)

\* engine.process_page(url, content)
ProcessPage(url, content) ==
  /\ calls < MaxCalls
  /\ Becomes(process_page(Self, url, content))
  /\ Indexed("process_page", FALSE)

\* engine.build_index()
BuildIndex ==
  /\ calls < MaxCalls
  /\ Becomes(build_index(Self))
  /\ Indexed("build_index", FALSE)

\* results = engine.search(query)
Search(q) ==
  /\ Idle
  /\ op' = "search"
  /\ arg_query' = q
  /\ arg_results' = <<>>
  /\ ret' \in search(Self, q)
  /\ UNCHANGED <<engine_vars, raised, calls>>

\* rank_results storing a count of 0 for each query term a candidate's
\* frequency table lacks (a lookup that inserts its default).
RankResultsStoringDefaults(q, results) ==
  /\ Idle
  /\ Range(results) \subseteq DOMAIN word_frequencies
  /\ op' = "rank_results"
  /\ arg_query' = q
  /\ arg_results' = results
  /\ ret' = rank_results(Self, q, results)
  /\ word_frequencies' =
       [url \in DOMAIN word_frequencies |->
          IF url \in Range(results)
          THEN [term \in DOMAIN word_frequencies[url] \cup Range(QueryTerms(q)) |->
                  IF term \in DOMAIN word_frequencies[url]
                  THEN word_frequencies[url][term] ELSE 0]
          ELSE word_frequencies[url]]
  /\ UNCHANGED <<pages, page_titles, inverted_index, trie, occurrence_lists, stats,
                 raised, calls>>

\* ranked = engine.rank_results(query, results), for results the engine
\* has a frequency table for (self.word_frequencies[url] raises otherwise).
RankResults(q, results) ==
  /\ Idle
  /\ Range(results) \subseteq DOMAIN word_frequencies
  /\ op' = "rank_results"
  /\ arg_query' = q
  /\ arg_results' = results
  /\ ret' = rank_results(Self, q, results)
  /\ UNCHANGED <<engine_vars, raised, calls>>

\* results = engine.query(query_string)
Query(q) ==
  /\ Idle
  /\ op' = "query"
  /\ arg_query' = q
  /\ arg_results' = <<>>
  /\ ret' \in query(Self, q)
  /\ UNCHANGED <<engine_vars, raised, calls>>

\* engine.display_results(query, results): the caller prints the result it
\* holds and lets go of it.  Nothing of the engine is written.
DisplayResults ==
  /\ ~Idle
  /\ op' = "display_results"
  /\ arg_query' = ""
  /\ arg_results' = <<>>
  /\ ret' = <<>>
  /\ UNCHANGED <<engine_vars, raised, calls>>

\* The program as run (__main__): a new engine, one crawl_directory.
IndexDirectory(directory) ==
  /\ calls = 0
  /\ CrawlDirectory(directory)

\* The program as run: one crawl_directory on the new engine; queries, each
\* displayed before the next.
Next ==
  \/ \E directory \in Directories : IndexDirectory(directory)
  \/ \E q \in Queries : Search(q)
  \/ \E q \in Queries, results \in ResultLists(Urls) : RankResults(q, results)
  \/ \E q \in Queries : Query(q)
  \/ DisplayResults

Spec == Init /\ [][Next]_vars

\* The directories crawled when the methods are called freely: one file.
SmallDirectories == { d \in Directories : Len(d.listing) <= 1 }

\* The engine as a library: its methods called in any order, any number of
\* times (at most MaxCalls indexing calls).
NextAPI ==
  \/ \E directory \in SmallDirectories : CrawlDirectory(directory)
  \/ \E fn \in HtmlNames, content \in Pages : ProcessPage(FileUrl("p", fn), content)
  \/ BuildIndex
  \/ \E q \in Queries : Search(q)
  \/ \E q \in Queries, results \in ResultLists(Urls) : RankResults(q, results)
  \/ \E q \in Queries : Query(q)
  \/ DisplayResults

SpecAPI == Init /\ [][NextAPI]_vars

\* Under Spec: the build has completed, crawl_directory has run on the new
\* engine and returned.
Built == calls = 1 /\ ~raised

(***************************************************************************)
(* Properties                                                              *)
(***************************************************************************)

\* The vocabulary: the terms the build has indexed.
Vocabulary == DOMAIN inverted_index

\* The postings list the term dictionary resolves for term t, empty when the
\* dictionary does not know t.
Postings(t) ==
  IF TrieSearch(trie, t) = NOT_FOUND THEN <<>>
  ELSE occurrence_lists[TrieSearch(trie, t) + 1]

\* The stored frequency of term t in document d.
Frequency(d, t) ==
  IF t \in DOMAIN word_frequencies[d] THEN word_frequencies[d][t] ELSE 0

\* The documents whose frequency table counts every one of terms.
Matching(terms) ==
  { d \in DOMAIN word_frequencies : \A k \in DOMAIN terms : Frequency(d, terms[k]) >= 1 }

\* C1: after the build, search returns nothing for a query without terms,
\* and otherwise, as a set, exactly the documents whose frequency table
\* counts every query term; so nothing when a term is not in the vocabulary.
C1_SearchIsConjunction ==
  (Built /\ op = "search") =>
    LET terms == tokenize(arg_query)
    IN  IF terms = <<>> THEN ret = <<>>
        ELSE /\ Range(ret) = Matching(terms)
             /\ (\E k \in DOMAIN terms : terms[k] \notin Vocabulary) => ret = <<>>

\* A search of two different terms that some document holds both of.
C1_Witness ==
  /\ Built /\ op = "search"
  /\ Len(tokenize(arg_query)) = 2
  /\ tokenize(arg_query)[1] # tokenize(arg_query)[2]
  /\ ret # <<>>
  /\ Range(ret) # DOMAIN word_frequencies

\* The two documents of the scenario are the engine's documents.
ScenarioBuilt == Built /\ DOMAIN pages = {D1, D2}

\* get_text() gave the title text along with the body.
TitleInText == contains(pages[D2].text, "Dog Training")

\* C2, as stated: in the scenario the query "dog" finds D1 and D2 and ranks
\* D2 (score 5) before D1 (score 1).
C2_AsStated ==
  (ScenarioBuilt /\ arg_query = "dog") =>
    /\ op = "search" => Range(ret) = {D1, D2}
    /\ op = "query" => ret = <<D2, D1>>
    /\ Score(Self, "dog", D2) = 5
    /\ Score(Self, "dog", D1) = 1

\* C2, amended: in the scenario the query "dog" finds D1, whose score is 3
\* (frequency 1, and the title bonus 2 as "dog" is a substring of "cats and
\* dogs").  The body of D2 has no token "dog": D2 is found only when its
\* title is part of the extracted text, and its score is then 3 as well
\* (frequency 1 and the title bonus 2), so D1 stays first.
C2_ScenarioDog ==
  (ScenarioBuilt /\ arg_query = "dog") =>
    /\ op = "search" => ret = (IF TitleInText THEN <<D1, D2>> ELSE <<D1>>)
    /\ op = "query" => ret = (IF TitleInText THEN <<D1, D2>> ELSE <<D1>>)
    /\ Score(Self, "dog", D1) = 3
    /\ Score(Self, "dog", D2) = (IF TitleInText THEN 3 ELSE 2)
    /\ Frequency(D1, "dog") = 1
    /\ Frequency(D2, "dog") = (IF TitleInText THEN 1 ELSE 0)

\* The query "dog" has been answered in the scenario, both documents found.
C2_Witness ==
  ScenarioBuilt /\ op = "query" /\ arg_query = "dog" /\ Len(ret) = 2

\* The sets search can return for query q on the engine as it is.
SearchSets(q) == { Range(r) : r \in search(Self, q) }

\* C3, as stated: for all query strings t1 and t2, what search returns for
\* t1 + " " + t2 is a subset of what it returns for t1 and for t2.
C3_AsStated ==
  (Built /\ op = "search") =>
    \A t1, t2 \in BaseQueries :
      arg_query = t1 \o " " \o t2 =>
        \A s1 \in SearchSets(t1), s2 \in SearchSets(t2) :
          Range(ret) \subseteq s1 /\ Range(ret) \subseteq s2

\* C3, amended: the same for all t1 and t2 that each tokenize to at least
\* one term.
C3_Monotone ==
  (Built /\ op = "search") =>
    \A t1, t2 \in BaseQueries :
      (arg_query = t1 \o " " \o t2 /\ tokenize(t1) # <<>> /\ tokenize(t2) # <<>>) =>
        \A s1 \in SearchSets(t1), s2 \in SearchSets(t2) :
          Range(ret) \subseteq s1 /\ Range(ret) \subseteq s2

\* A search of t1 + " " + t2 that finds a document, and fewer than t1 does.
C3_Witness ==
  /\ Built /\ op = "search" /\ ret # <<>>
  /\ \E t1, t2 \in BaseQueries :
       /\ arg_query = t1 \o " " \o t2
       /\ tokenize(t1) # <<>> /\ tokenize(t2) # <<>>
       /\ \E s1 \in SearchSets(t1) : Range(ret) # s1

\* The score as the specification states it, over a set of terms: each
\* term once, its frequency and 2 more if the lowercased title contains it.
RECURSIVE distinct_terms_sum(_, _)
distinct_terms_sum(terms, url) ==
  IF terms = {} THEN 0
  ELSE LET term == CHOOSE x \in terms : TRUE
       IN  Frequency(url, term)
             + (IF contains(lower(page_titles[url]), term) THEN 2 ELSE 0)
             + distinct_terms_sum(terms \ {term}, url)

DistinctTermsScore(q, url) == distinct_terms_sum(Range(QueryTerms(q)), url)

\* C4: the score rank_results computes for a candidate is the sum over the
\* distinct query terms of the term's frequency, plus 2 for each one that
\* is a substring of the lowercased title; a repeated term counts once.
C4_DistinctTerms ==
  op = "rank_results" =>
    \A url \in Range(arg_results) :
      Score(Self, arg_query, url) = DistinctTermsScore(arg_query, url)

\* The strings the dictionary is probed with: the vocabulary, the terms of
\* the frequency tables and of the queries, and every prefix of these.
Probes ==
  LET terms == Vocabulary
                 \cup UNION { DOMAIN word_frequencies[d] : d \in DOMAIN word_frequencies }
                 \cup UNION { Range(split(lower(q))) : q \in BaseQueries }
  IN  UNION { { SubSeq(t, 1, k) : k \in 0..Len(t) } : t \in terms }

\* C5: after the build, a document is in the postings list the dictionary
\* resolves for a term iff its stored frequency of the term is at least 1.
C5_PostingsMatchFrequencies ==
  Built =>
    \A t \in Probes :
      \A d \in DOMAIN word_frequencies \cup Range(Postings(t)) :
        d \in Range(Postings(t)) <=> (d \in DOMAIN word_frequencies /\ Frequency(d, t) >= 1)

\* Two documents built, a term of both and a two-letter term of one.
C5_Witness ==
  /\ Built
  /\ \E t \in Vocabulary : Len(Postings(t)) = 2
  /\ \E t \in Vocabulary : Len(t) = 2 /\ Len(Postings(t)) = 1

\* xs is strictly ascending in Python's string order.
StrictlyAscending(xs) ==
  \A i, j \in DOMAIN xs : i < j => str_less(xs[i], xs[j])

\* C6: however the methods are called, every list of occurrence_lists is
\* sorted ascending and holds no document twice.
C6_PostingsSortedNoDuplicates ==
  \A i \in DOMAIN occurrence_lists : StrictlyAscending(occurrence_lists[i])

\* C7: a crawl_directory whose read fails leaves the trie and the postings
\* table as they were; on the new engine they stay empty and every search
\* and query returns nothing.
C7_FailedCrawlBuildsNothing ==
  /\ [][(op' = "crawl_directory" /\ raised') =>
          (trie' = trie /\ occurrence_lists' = occurrence_lists)]_vars
  /\ [](raised =>
          /\ trie = NewTrie
          /\ occurrence_lists = <<>>
          /\ op \in {"search", "query"} => ret = <<>>)

\* After a failed crawl, a search for terms of a document read before the
\* failure.
C7_Witness ==
  /\ raised /\ op = "search"
  /\ QueryTerms(arg_query) # <<>>
  /\ Matching(QueryTerms(arg_query)) # {}

\* C8: after the build, search, rank_results and query write nothing of the
\* trie, the postings table, the frequency tables, the titles or the
\* inverted_index; a search or query returns the set the engine as it was
\* before the call finds for its query, whatever calls came before it.
C8_QueriesWriteNothing ==
  [][(Built /\ op' \in QueryOps) =>
       /\ UNCHANGED <<trie, occurrence_lists, word_frequencies, page_titles, inverted_index>>
       /\ op' \in {"search", "query"} => Range(ret') \in SearchSets(arg_query')]_vars

\* rank_results has run with a query term that is neither in the vocabulary
\* nor in a candidate's frequency table.
C8_Witness ==
  /\ Built /\ op = "rank_results"
  /\ \E url \in Range(arg_results), k \in DOMAIN QueryTerms(arg_query) :
       /\ QueryTerms(arg_query)[k] \notin DOMAIN word_frequencies[url]
       /\ QueryTerms(arg_query)[k] \notin Vocabulary

NoRepeats(xs) == \A i, j \in DOMAIN xs : i # j => xs[i] # xs[j]

\* The scores of xs for query q do not increase from front to back.
NonIncreasing(q, xs) ==
  \A i, j \in DOMAIN xs : i < j => Score(Self, q, xs[i]) >= Score(Self, q, xs[j])

\* C9: rank_results returns each candidate once and nothing else, scores
\* not increasing; query returns the documents search finds, each once, in
\* such an order, and nothing exactly when search finds nothing.
C9_RankedIsSortedPermutation ==
  /\ op = "rank_results" =>
       /\ Range(ret) = Range(arg_results)
       /\ NoRepeats(ret)
       /\ NonIncreasing(arg_query, ret)
  /\ op = "query" =>
       /\ Range(ret) \in SearchSets(arg_query)
       /\ NoRepeats(ret)
       /\ NonIncreasing(arg_query, ret)
       /\ ret = <<>> <=> SearchSets(arg_query) = {{}}

\* rank_results has put two candidates of different scores in another order
\* than it was given them.
C9_Witness ==
  /\ op = "rank_results"
  /\ Len(arg_results) = 2 /\ Len(ret) = 2
  /\ ret # arg_results
  /\ Score(Self, arg_query, ret[1]) > Score(Self, arg_query, ret[2])

\* The position of term t in the sorted vocabulary, counted from 0.
Position(t) == Cardinality({ u \in Vocabulary : str_less(u, t) })

\* C10: after the build, the dictionary maps each vocabulary term to its
\* position in the sorted vocabulary, where the postings table holds the
\* term's postings list; every other string, a prefix of a term included,
\* is NOT_FOUND.
C10_DictionaryIsExactMap ==
  Built =>
    /\ Len(occurrence_lists) = Cardinality(Vocabulary)
    /\ \A t \in Vocabulary :
         /\ TrieSearch(trie, t) = Position(t)
         /\ Range(occurrence_lists[Position(t) + 1])
              = { d \in DOMAIN word_frequencies : Frequency(d, t) >= 1 }
         /\ StrictlyAscending(occurrence_lists[Position(t) + 1])
    /\ \A s \in Probes \ Vocabulary : TrieSearch(trie, s) = NOT_FOUND

\* A vocabulary with a term that is a prefix of another, and a prefix of a
\* term that is no term.
C10_Witness ==
  /\ Built
  /\ \E t, u \in Vocabulary : t # u /\ SubSeq(u, 1, Len(t)) = t
  /\ \E t \in Vocabulary : \E k \in 1..(Len(t) - 1) : SubSeq(t, 1, k) \notin Vocabulary

====
